---- MODULE Spec2Model ----
(***************************************************************************)
(* Sealed-bid name auction of near-registrar: the Registrar of             *)
(* src/src/lib.rs (bid, reveal, withdraw) over a map of Auctions.          *)
(*                                                                         *)
(* Every operation fetches its Auction with                                *)
(*     self.auctions.get(&account_id).unwrap_or(empty_auction)             *)
(* which yields an owned value.  What an operation changes in that value   *)
(* (auction.bids.insert, bid.amount = ..., auction.reveals.insert) reaches *)
(* the Registrar only through self.auctions.insert, and only the branch of *)
(* bid that creates an Auction calls it.  The model keeps the Registrar's  *)
(* stored map in `auctions` and lets each operation work on the fetched    *)
(* value.                                                                  *)
(***************************************************************************)
EXTENDS Integers, Sequences, FiniteSets

\* ---------------------------------------------------------------- bounds
MaxTick == 6
MaxLaunch == 1
MaxPeriod == 2
MaxRevealers == 3

\* ---------------------------------------------------------------- inputs
Parties == {"carol", "bob"}

AccountIds == {"aj.near", "c.near"}

\* Balance values used as masked_amount and attached deposit.
Amounts == {0, 1, 12}

\* Salt strings, as byte sequences: "" and "2".
Salts == {<<>>, <<50>>}

VARIABLES
    block_index,          \* env::block_index()
    start_block_height,   \* Registrar.start_block_height
    auction_period,       \* Registrar.auction_period
    reveal_period,        \* Registrar.reveal_period
    auctions,             \* Registrar.auctions : AccountId -> Auction
    revealed,             \* history: <<account_id, party>> of every reveal that returned true
    deposits,             \* history: per <<account_id, party>>, the amounts deposited by reveals that returned true
    returned,             \* history: per <<account_id, party>>, the total transferred to the party
    claims_won,           \* history: the claims that created the named account
    last                  \* the call that has just returned: its inputs, the map before it, its outcome

vars == <<block_index, start_block_height, auction_period, reveal_period, auctions, revealed,
          deposits, returned, claims_won, last>>

\* ------------------------------------------------------- maps and records
EmptyMap == [k \in {} |-> 0]

\* Option::unwrap_or on a map lookup.
GetOrDefault(m, k, d) == IF k \in DOMAIN m THEN m[k] ELSE d

\* (variant: the insertion replaces the whole map by the one new entry)
MapInsert_Replaces(m, k, v) == [x \in {k} |-> v]

MapInsert(m, k, v) == [x \in (DOMAIN m) \cup {k} |-> IF x = k THEN v ELSE m[x]]

MapLen(m) == Cardinality(DOMAIN m)

\* Bid { amount: 0, commitment: Vec::new() }
EmptyBid == [amount |-> 0, commitment |-> <<>>]

\* Auction { start_block_height: 0, bids: default, reveals: default }
EmptyAuction == [start_block_height |-> 0, bids |-> EmptyMap, reveals |-> EmptyMap]

\* ------------------------------------------------------------- hashing
\* DefaultHasher (SipHash-1-3, zero keys) of the identifier's bytes, as four
\* 16-bit limbs, most significant first:
\*   "aj.near" -> 14092859888798584920,  "c.near" -> 18232781451801311929
AccountHash(account_id) ==
    IF account_id = "aj.near" THEN <<50067, 58726, 54576, 53336>>
    ELSE <<64775, 55841, 1522, 47801>>

RECURSIVE LimbsMod(_, _, _)
LimbsMod(limbs, m, acc) ==
    IF limbs = <<>> THEN acc
    ELSE LimbsMod(Tail(limbs), m, (acc * 65536 + Head(limbs)) % m)

\* account_hash % 52
HashSlot(account_id) == LimbsMod(AccountHash(account_id), 52, 0)

\* ---------------------------------------------------------- commitments
\* masked_amount.to_string(): decimal digits as ASCII bytes
RECURSIVE to_string(_)
to_string(n) ==
    IF n < 10 THEN <<48 + n>>
    ELSE Append(to_string(n \div 10), 48 + (n % 10))

Bs58Alphabet ==
    <<49,50,51,52,53,54,55,56,57,65,66,67,68,69,70,71,72,74,75,76,77,78,80,81,
      82,83,84,85,86,87,88,89,90,97,98,99,100,101,102,103,104,105,106,107,109,
      110,111,112,113,114,115,116,117,118,119,120,121,122>>

RECURSIVE BytesToNat(_)
BytesToNat(b) ==
    IF b = <<>> THEN 0
    ELSE BytesToNat(SubSeq(b, 1, Len(b) - 1)) * 256 + b[Len(b)]

RECURSIVE NatToBs58(_)
NatToBs58(n) ==
    IF n = 0 THEN <<>>
    ELSE Append(NatToBs58(n \div 58), Bs58Alphabet[(n % 58) + 1])

RECURSIVE LeadingZeros(_)
LeadingZeros(b) ==
    IF b = <<>> \/ Head(b) # 0 THEN <<>>
    ELSE <<49>> \o LeadingZeros(Tail(b))

\* bs58::encode(bytes).into_string()
Bs58Encode(b) == LeadingZeros(b) \o NatToBs58(BytesToNat(b))

\* bs58::encode(masked_amount.to_string() + &salt)
RevealerCommitment(masked_amount, salt) == Bs58Encode(to_string(masked_amount) \o salt)

\* str::from_utf8(bytes).is_ok(): ASCII is valid; the only other byte the
\* inputs carry is 0xFF, which no UTF-8 sequence contains.
Utf8Ok(b) == \A i \in 1..Len(b) : b[i] < 128

\* Commitment bytes a caller may submit: every honest commitment, the empty
\* vector, and one byte that is not UTF-8.
Commitments ==
    {RevealerCommitment(a, s) : a \in Amounts, s \in Salts} \cup {<<>>, <<255>>}

\* ------------------------------------------------------------ the checks
\* (variant: the Auction is still open at exactly auction_period)
BidExpired_Late(auction, now) == now - auction.start_block_height > auction_period

\* bid: current_blockheight - auction.start_block_height >= self.auction_period
BidExpired(auction, now) == now - auction.start_block_height >= auction_period

\* (variant: an identifier stays open in every period after its own)
OpenForAuction_NotYet(account_id, now) ==
    LET weeks == (now - start_block_height) \div auction_period
    IN  ~(HashSlot(account_id) > weeks)

\* bid: weeks == account_hash % 52
OpenForAuction(account_id, now) ==
    LET weeks == (now - start_block_height) \div auction_period
    IN  weeks = HashSlot(account_id)

\* (variant: the deposit is not compared)
DepositMatches_Unchecked(masked_amount, attached_deposit) == TRUE

\* reveal: masked_amount == env::attached_deposit()
DepositMatches(masked_amount, attached_deposit) == masked_amount = attached_deposit

\* (variant: the window is shifted by one block)
InRevealWindow_Late(auction, now) ==
    /\ ~(now - auction.start_block_height <= auction_period)
    /\ ~(now - auction.start_block_height > auction_period + reveal_period)

\* reveal: the auction is past bidding and the reveal period has not expired
InRevealWindow(auction, now) ==
    /\ ~(now - auction.start_block_height < auction_period)
    /\ ~(now - auction.start_block_height >= auction_period + reveal_period)

\* (variant: the reveal-in-progress test is missing)
WithdrawAllowed_NoRevealTest(auction, now) ==
    ~(now - auction.start_block_height < auction_period)

\* withdraw: not in progress, and not (reveal in progress with bids.len() != reveals.len())
WithdrawAllowed(auction, now) ==
    /\ ~(now - auction.start_block_height < auction_period)
    /\ ~(/\ now - auction.start_block_height < auction_period + reveal_period
         /\ MapLen(auction.bids) # MapLen(auction.reveals))

\* ------------------------------------------------------------ operations
\* (variant: self.auctions is rebuilt from the entries the call wrote)
Outcome_OnlyWritten(ret, stored, paid) ==
    [ret |-> ret,
     auctions |-> [x \in {y \in DOMAIN stored : y \notin DOMAIN auctions \/ stored[y] # auctions[y]}
                     |-> stored[x]],
     paid |-> paid]

Outcome(ret, stored, paid) == [ret |-> ret, auctions |-> stored, paid |-> paid]

\* (variant: the new Auction is inserted before the eligibility gate is tested)
bid_outcome_InsertsFirst(bidder_account_id, account_id, commitment) ==
    LET new_bid == [amount |-> 0, commitment |-> commitment]
        auction == GetOrDefault(auctions, account_id, EmptyAuction)
        new_auction == [start_block_height |-> block_index,
                        bids |-> MapInsert(EmptyMap, bidder_account_id, new_bid),
                        reveals |-> EmptyMap]
    IN  IF auction.start_block_height # 0
        THEN IF BidExpired(auction, block_index)
                \/ Len(GetOrDefault(auction.bids, bidder_account_id, EmptyBid).commitment) # 0
             THEN Outcome("false", auctions, 0)
             ELSE Outcome("true", auctions, 0)
        ELSE Outcome(IF OpenForAuction(account_id, block_index) THEN "true" ELSE "false",
                     MapInsert(auctions, account_id, new_auction), 0)

\* Registrar::bid
bid_outcome(bidder_account_id, account_id, commitment) ==
    LET new_bid == [amount |-> 0, commitment |-> commitment]
        auction == GetOrDefault(auctions, account_id, EmptyAuction)
    IN  IF auction.start_block_height # 0
        THEN IF BidExpired(auction, block_index)
             THEN Outcome("false", auctions, 0)
             ELSE LET stored_bid == GetOrDefault(auction.bids, bidder_account_id, EmptyBid)
                  IN  IF Len(stored_bid.commitment) # 0
                      THEN Outcome("false", auctions, 0)
                      \* auction.bids.insert on the fetched value; no self.auctions.insert
                      ELSE Outcome("true", auctions, 0)
        ELSE IF ~OpenForAuction(account_id, block_index)
             THEN Outcome("false", auctions, 0)
             ELSE LET new_auction ==
                          [start_block_height |-> block_index,
                           bids |-> MapInsert(EmptyMap, bidder_account_id, new_bid),
                           reveals |-> EmptyMap]
                  IN  Outcome("true", MapInsert(auctions, account_id, new_auction), 0)

\* (variant: the accepted reveal is stored with self.auctions.insert)
reveal_outcome_Stored(revealer_account_id, account_id, masked_amount, salt, attached_deposit) ==
    LET auction == GetOrDefault(auctions, account_id, EmptyAuction)
        stored_bid == GetOrDefault(auction.bids, revealer_account_id, EmptyBid)
    IN  IF /\ DepositMatches(masked_amount, attached_deposit)
           /\ auction.start_block_height # 0
           /\ InRevealWindow(auction, block_index)
           /\ Len(stored_bid.commitment) # 0
           /\ stored_bid.commitment = RevealerCommitment(masked_amount, salt)
        THEN Outcome("true",
                 MapInsert(auctions, account_id,
                     [auction EXCEPT
                        !.bids = MapInsert(@, revealer_account_id,
                                     [stored_bid EXCEPT !.amount = masked_amount]),
                        !.reveals = MapInsert(@, revealer_account_id, masked_amount)]),
                 0)
        ELSE Outcome("false", auctions, 0)

\* Registrar::reveal
reveal_outcome(revealer_account_id, account_id, masked_amount, salt, attached_deposit) ==
    IF ~DepositMatches(masked_amount, attached_deposit)
    THEN Outcome("false", auctions, 0)
    ELSE LET auction == GetOrDefault(auctions, account_id, EmptyAuction)
         IN  IF auction.start_block_height # 0
             THEN IF ~InRevealWindow(auction, block_index)
                  THEN Outcome("false", auctions, 0)
                  ELSE LET stored_bid == GetOrDefault(auction.bids, revealer_account_id, EmptyBid)
                       IN  IF Len(stored_bid.commitment) # 0
                           THEN IF ~Utf8Ok(stored_bid.commitment)
                                THEN Outcome("abort", auctions, 0)   \* unwrap() panics
                                ELSE IF stored_bid.commitment # RevealerCommitment(masked_amount, salt)
                                     THEN Outcome("false", auctions, 0)
                                     \* bid.amount and auction.reveals are set on fetched
                                     \* values; no insert stores them
                                     ELSE Outcome("true", auctions, 0)
                           ELSE Outcome("false", auctions, 0)
             ELSE Outcome("false", auctions, 0)

\* (variant: the Auction is removed once a withdraw succeeds)
withdraw_outcome_RemovesAuction(withdrawer_account_id, account_id) ==
    LET auction == GetOrDefault(auctions, account_id, EmptyAuction)
        stored_bid == GetOrDefault(auction.bids, withdrawer_account_id, EmptyBid)
    IN  IF /\ auction.start_block_height # 0
           /\ WithdrawAllowed(auction, block_index)
           /\ Len(stored_bid.commitment) # 0
        THEN Outcome("true", [x \in DOMAIN auctions \ {account_id} |-> auctions[x]],
                     IF stored_bid.amount > 0 THEN stored_bid.amount ELSE 0)
        ELSE Outcome("false", auctions, 0)

\* Registrar::withdraw
withdraw_outcome(withdrawer_account_id, account_id) ==
    LET auction == GetOrDefault(auctions, account_id, EmptyAuction)
    IN  IF auction.start_block_height # 0
        THEN IF ~WithdrawAllowed(auction, block_index)
             THEN Outcome("false", auctions, 0)
             ELSE LET stored_bid == GetOrDefault(auction.bids, withdrawer_account_id, EmptyBid)
                  IN  IF Len(stored_bid.commitment) # 0
                      \* Promise::transfer(bid.amount) when bid.amount > 0; the zeroing
                      \* is on the fetched Bid
                      THEN Outcome("true", auctions, IF stored_bid.amount > 0 THEN stored_bid.amount ELSE 0)
                      ELSE Outcome("false", auctions, 0)
        ELSE Outcome("false", auctions, 0)

Call(op, caller, account_id, commitment, masked_amount, salt, attached_deposit, out) ==
    [op |-> op, caller |-> caller, account_id |-> account_id, commitment |-> commitment,
     masked_amount |-> masked_amount, salt |-> salt, attached_deposit |-> attached_deposit,
     at |-> block_index, pre |-> auctions, pre_returned |-> returned,
     had_revealed |-> <<account_id, caller>> \in revealed,
     had_claimed |-> \E w \in claims_won : w.account_id = account_id,
     ret |-> out.ret, paid |-> out.paid,
     created |-> IF "created" \in DOMAIN out THEN out.created ELSE FALSE,
     winner |-> IF "winner" \in DOMAIN out THEN out.winner ELSE "",
     price |-> IF "price" \in DOMAIN out THEN out.price ELSE 0]

\* What a call that returned leaves with the contract: the attached deposit
\* is credited when the call starts, and only a Promise transfer issued by the
\* call gives any of it back (reveal issues none: "TODO: return the attached
\* deposit").
Retained(call) == call.attached_deposit - call.paid

NoCall ==
    [op |-> "none", caller |-> "", account_id |-> "", commitment |-> <<>>,
     masked_amount |-> 0, salt |-> <<>>, attached_deposit |-> 0,
     at |-> 0, pre |-> EmptyMap, pre_returned |-> EmptyMap, had_revealed |-> FALSE, had_claimed |-> FALSE,
     ret |-> "none", paid |-> 0, created |-> FALSE, winner |-> "", price |-> 0]

\* Registrar::new(auction_period, reveal_period) at some block
Init ==
    /\ block_index \in 0..MaxLaunch
    /\ start_block_height = block_index
    /\ auction_period \in 1..MaxPeriod
    /\ reveal_period \in 1..MaxPeriod
    /\ auctions = EmptyMap
    /\ revealed = {}
    /\ deposits = [k \in AccountIds \X Parties |-> {}]
    /\ returned = [k \in AccountIds \X Parties |-> 0]
    /\ claims_won = {}
    /\ last = NoCall

bid ==
    /\ last = NoCall
    /\ \E p \in Parties, a \in AccountIds, c \in Commitments :
        LET out == bid_outcome(p, a, c)
        IN  /\ auctions' = out.auctions
            /\ last' = Call("bid", p, a, c, 0, <<>>, 0, out)
    /\ UNCHANGED <<block_index, start_block_height, auction_period, reveal_period, revealed,
                   deposits, returned, claims_won>>

reveal ==
    /\ last = NoCall
    /\ \E p \in Parties, a \in AccountIds, m \in Amounts, s \in Salts, d \in Amounts :
        LET out == reveal_outcome(p, a, m, s, d)
        IN  /\ auctions' = out.auctions
            /\ revealed' = IF out.ret = "true" THEN revealed \cup {<<a, p>>} ELSE revealed
            /\ deposits' = IF out.ret = "true"
                           THEN [deposits EXCEPT ![<<a, p>>] = @ \cup {d}]
                           ELSE deposits
            /\ last' = Call("reveal", p, a, <<>>, m, s, d, out)
    /\ UNCHANGED <<block_index, start_block_height, auction_period, reveal_period,
                   returned, claims_won>>

withdraw ==
    /\ last = NoCall
    /\ \E p \in Parties, a \in AccountIds :
        LET out == withdraw_outcome(p, a)
        IN  /\ auctions' = out.auctions
            /\ returned' = [returned EXCEPT ![<<a, p>>] = @ + out.paid]
            /\ last' = Call("withdraw", p, a, <<>>, 0, <<>>, 0, out)
    /\ UNCHANGED <<block_index, start_block_height, auction_period, reveal_period, revealed,
                   deposits, claims_won>>

\* The call's result reaches the caller; the Registrar is ready for the next call.
CallReturns ==
    /\ last # NoCall
    /\ last' = NoCall
    /\ UNCHANGED <<block_index, start_block_height, auction_period, reveal_period, auctions, revealed,
                   deposits, returned, claims_won>>

\* The ledger's block counter advances between calls.
NextBlock ==
    /\ last = NoCall
    /\ block_index < MaxTick
    /\ block_index' = block_index + 1
    /\ UNCHANGED <<start_block_height, auction_period, reveal_period, auctions, revealed,
                   deposits, returned, claims_won, last>>

Next == bid \/ reveal \/ withdraw \/ CallReturns \/ NextBlock

Spec == Init /\ [][Next]_vars

\* ------------------------------------------------------------------------
\* The Registrar of src/contracts/rust/src/lib.rs: the same fields over
\* HashMaps, changed in place through get_mut, and the only claim operation.
\* ------------------------------------------------------------------------

\* Identifiers auctioned in this revision's runs: "c.near" falls in week 1,
\* so that bid's gate is closed at launch and opens later.
ContractsAccountIds == {"c.near"}

\* Base58PublicKey values passed to claim
PublicKeys == {"ed25519:6E8sCci9badyRkXb3JoRpBj5p8C6Tw41ELDZoiihKEtp"}

\* (variant: bids are accepted until the reveal window ends)
contracts_BidExpired_AfterReveal(auction, now) ==
    now - auction.start_block_height > auction_period + reveal_period

\* bid: current_blockheight - auction.start_block_height > self.auction_period
contracts_BidExpired(auction, now) == now - auction.start_block_height > auction_period

\* bid: account_hash % 52 > weeks
contracts_NotYetOpen(account_id, now) ==
    LET weeks == (now - start_block_height) \div auction_period
    IN  HashSlot(account_id) > weeks

\* reveal: auction in progress, or reveal period expired
contracts_RevealClosed(auction, now) ==
    \/ now - auction.start_block_height <= auction_period
    \/ now - auction.start_block_height > auction_period + reveal_period

\* (variant: the reveal-in-progress test is missing)
contracts_InProgress_NoRevealTest(auction, now) ==
    now - auction.start_block_height <= auction_period

\* withdraw, claim: auction in progress, or reveal in progress with
\* bids.len() != reveals.len()
contracts_InProgress(auction, now) ==
    \/ now - auction.start_block_height <= auction_period
    \/ /\ now - auction.start_block_height <= auction_period + reveal_period
       /\ MapLen(auction.bids) # MapLen(auction.reveals)

\* Registrar::bid (contracts)
contracts_bid_outcome(bidder_account_id, account_id, commitment) ==
    LET new_bid == [amount |-> 0, commitment |-> commitment]
    IN  IF account_id \in DOMAIN auctions
        THEN LET auction == auctions[account_id]
             IN  IF contracts_BidExpired(auction, block_index)
                 THEN Outcome("false", auctions, 0)
                 ELSE Outcome("true",
                          [auctions EXCEPT ![account_id].bids =
                               MapInsert(@, bidder_account_id, new_bid)],
                          0)
        ELSE IF contracts_NotYetOpen(account_id, block_index)
             THEN Outcome("false", auctions, 0)
             ELSE LET new_auction ==
                          [start_block_height |-> block_index,
                           bids |-> MapInsert(EmptyMap, bidder_account_id, new_bid),
                           reveals |-> EmptyMap]
                  IN  Outcome("true", MapInsert(auctions, account_id, new_auction), 0)

\* (variant: bid.amount is assigned before the commitment is compared)
contracts_reveal_outcome_AmountFirst(revealer_account_id, account_id, masked_amount, salt) ==
    IF /\ account_id \in DOMAIN auctions
       /\ ~contracts_RevealClosed(auctions[account_id], block_index)
       /\ revealer_account_id \in DOMAIN auctions[account_id].bids
    THEN LET stored_bid == auctions[account_id].bids[revealer_account_id]
             with_amount ==
                 [auctions EXCEPT ![account_id].bids[revealer_account_id].amount = masked_amount]
         IN  IF ~Utf8Ok(stored_bid.commitment)
             THEN Outcome("abort", auctions, 0)
             ELSE IF stored_bid.commitment # RevealerCommitment(masked_amount, salt)
                  THEN Outcome("false", with_amount, 0)
                  ELSE Outcome("true",
                           [with_amount EXCEPT ![account_id].reveals =
                                MapInsert(@, revealer_account_id, masked_amount)],
                           0)
    ELSE Outcome("false", auctions, 0)

\* Registrar::reveal (contracts)
contracts_reveal_outcome(revealer_account_id, account_id, masked_amount, salt) ==
    IF account_id \in DOMAIN auctions
    THEN LET auction == auctions[account_id]
         IN  IF contracts_RevealClosed(auction, block_index)
             THEN Outcome("false", auctions, 0)
             ELSE IF revealer_account_id \in DOMAIN auction.bids
                  THEN LET stored_bid == auction.bids[revealer_account_id]
                       IN  IF ~Utf8Ok(stored_bid.commitment)
                           THEN Outcome("abort", auctions, 0)   \* unwrap() panics
                           ELSE IF stored_bid.commitment # RevealerCommitment(masked_amount, salt)
                                THEN Outcome("false", auctions, 0)
                                ELSE Outcome("true",
                                         [auctions EXCEPT
                                            ![account_id].bids[revealer_account_id].amount = masked_amount,
                                            ![account_id].reveals =
                                                MapInsert(@, revealer_account_id, masked_amount)],
                                         0)
                  ELSE Outcome("false", auctions, 0)
    ELSE Outcome("false", auctions, 0)

\* Registrar::withdraw (contracts)
contracts_withdraw_outcome(withdrawer_account_id, account_id) ==
    IF account_id \in DOMAIN auctions
    THEN LET auction == auctions[account_id]
         IN  IF contracts_InProgress(auction, block_index)
             THEN Outcome("false", auctions, 0)
             ELSE IF withdrawer_account_id \in DOMAIN auction.bids
                  THEN Outcome("true", auctions, 0)    \* nothing is transferred
                  ELSE Outcome("false", auctions, 0)
    ELSE Outcome("false", auctions, 0)

\* The orders in which `for .. in &auction.reveals` may visit a HashMap.
IterationOrders(m) ==
    {o \in [1..MapLen(m) -> DOMAIN m] : \A i, j \in 1..MapLen(m) : o[i] = o[j] => i = j}

\* (variant: an amount equal to the highest takes the lead, `<=` for `<`)
RECURSIVE SecondPriceScan_TieToLast(_, _, _, _)
SecondPriceScan_TieToLast(reveals, order, i, st) ==
    IF i > Len(order) THEN st
    ELSE LET revealer_account_id == order[i]
             revealer_balance == reveals[revealer_account_id]
         IN  IF st.is_first_check
             THEN SecondPriceScan_TieToLast(reveals, order, i + 1,
                      [highest_bid |-> revealer_balance, second_highest_bid |-> st.second_highest_bid,
                       winning_account_id |-> revealer_account_id, is_first_check |-> FALSE])
             ELSE IF revealer_balance >= st.second_highest_bid
                  THEN IF st.highest_bid <= revealer_balance
                       THEN SecondPriceScan_TieToLast(reveals, order, i + 1,
                                [st EXCEPT !.highest_bid = revealer_balance,
                                           !.second_highest_bid = st.highest_bid,
                                           !.winning_account_id = revealer_account_id])
                       ELSE SecondPriceScan_TieToLast(reveals, order, i + 1,
                                [st EXCEPT !.second_highest_bid = revealer_balance])
                  ELSE SecondPriceScan_TieToLast(reveals, order, i + 1, st)

\* claim: one pass of the loop body over the reveals, in the given order
RECURSIVE SecondPriceScan(_, _, _, _)
SecondPriceScan(reveals, order, i, st) ==
    IF i > Len(order) THEN st
    ELSE LET revealer_account_id == order[i]
             revealer_balance == reveals[revealer_account_id]
         IN  IF st.is_first_check
             THEN SecondPriceScan(reveals, order, i + 1,
                      [highest_bid |-> revealer_balance, second_highest_bid |-> st.second_highest_bid,
                       winning_account_id |-> revealer_account_id, is_first_check |-> FALSE])
             ELSE IF revealer_balance > st.second_highest_bid
                  THEN IF st.highest_bid < revealer_balance
                       THEN SecondPriceScan(reveals, order, i + 1,
                                [st EXCEPT !.highest_bid = revealer_balance,
                                           !.second_highest_bid = st.highest_bid,
                                           !.winning_account_id = revealer_account_id])
                       ELSE SecondPriceScan(reveals, order, i + 1,
                                [st EXCEPT !.second_highest_bid = revealer_balance])
                  ELSE SecondPriceScan(reveals, order, i + 1, st)

\* (variant: the loop stops one entry early)
SecondPrice_SkipsLast(reveals, order) ==
    SecondPriceScan(reveals, SubSeq(order, 1, Len(order) - 1), 1,
        [highest_bid |-> 0, second_highest_bid |-> 0,
         winning_account_id |-> "", is_first_check |-> TRUE])

SecondPrice(reveals, order) ==
    SecondPriceScan(reveals, order, 1,
        [highest_bid |-> 0, second_highest_bid |-> 0,
         winning_account_id |-> "", is_first_check |-> TRUE])

ClaimOutcome(ret, created, winner, price) ==
    [ret |-> ret, auctions |-> auctions, paid |-> 0,
     created |-> created, winner |-> winner, price |-> price]

\* Registrar::claim (contracts)
claim_outcome(claimer_account_id, account_id, public_key, order) ==
    IF account_id \in DOMAIN auctions
    THEN LET auction == auctions[account_id]
         IN  IF contracts_InProgress(auction, block_index)
             THEN ClaimOutcome("false", FALSE, "", 0)
             ELSE LET st == SecondPrice(auction.reveals, order)
                  IN  IF st.second_highest_bid = 0 /\ st.highest_bid = 0
                      THEN ClaimOutcome("false", FALSE, "", 0)
                      \* create_account and add_full_access_key only for the
                      \* winner; true is returned either way
                      ELSE ClaimOutcome("true", st.winning_account_id = claimer_account_id,
                               st.winning_account_id, st.second_highest_bid)
    ELSE ClaimOutcome("false", FALSE, "", 0)

contracts_bid ==
    /\ last = NoCall
    /\ \E p \in Parties, a \in ContractsAccountIds, c \in Commitments :
        LET out == contracts_bid_outcome(p, a, c)
        IN  /\ auctions' = out.auctions
            /\ last' = Call("bid", p, a, c, 0, <<>>, 0, out)
    /\ UNCHANGED <<block_index, start_block_height, auction_period, reveal_period, revealed,
                   deposits, returned, claims_won>>

contracts_reveal ==
    /\ last = NoCall
    /\ \E p \in Parties, a \in ContractsAccountIds, m \in Amounts, s \in Salts :
       \E d \in IF <<a, p>> \in revealed THEN {0} ELSE {0, m} :
        \* env::attached_deposit() is never read: a call that attaches nothing
        \* is accepted like one that attaches the revealed amount (a repeated
        \* reveal attaches nothing)
        LET out == contracts_reveal_outcome(p, a, m, s)
        IN  /\ auctions' = out.auctions
            /\ revealed' = IF out.ret = "true" THEN revealed \cup {<<a, p>>} ELSE revealed
            /\ deposits' = IF out.ret = "true"
                           THEN [deposits EXCEPT ![<<a, p>>] = @ \cup {d}]
                           ELSE deposits
            /\ last' = Call("reveal", p, a, <<>>, m, s, d, out)
    /\ UNCHANGED <<block_index, start_block_height, auction_period, reveal_period,
                   returned, claims_won>>

contracts_withdraw ==
    /\ last = NoCall
    /\ \E p \in Parties, a \in ContractsAccountIds :
        LET out == contracts_withdraw_outcome(p, a)
        IN  /\ auctions' = out.auctions
            /\ returned' = [returned EXCEPT ![<<a, p>>] = @ + out.paid]
            /\ last' = Call("withdraw", p, a, <<>>, 0, <<>>, 0, out)
    /\ UNCHANGED <<block_index, start_block_height, auction_period, reveal_period, revealed,
                   deposits, claims_won>>

claim ==
    /\ last = NoCall
    /\ \E p \in Parties, a \in ContractsAccountIds, k \in PublicKeys :
       \E order \in IterationOrders(GetOrDefault(auctions, a, EmptyAuction).reveals) :
        LET out == claim_outcome(p, a, k, order)
        IN  /\ auctions' = out.auctions
            /\ claims_won' =
                   IF out.created
                   THEN claims_won \cup
                            {[account_id |-> a, winner |-> p, price |-> out.price]}
                   ELSE claims_won
            /\ last' = Call("claim", p, a, <<>>, 0, <<>>, 0, out)
    /\ UNCHANGED <<block_index, start_block_height, auction_period, reveal_period, revealed,
                   deposits, returned>>

NextContracts ==
    contracts_bid \/ contracts_reveal \/ contracts_withdraw \/ claim \/ CallReturns \/ NextBlock

SpecContracts == Init /\ [][NextContracts]_vars

\* ------------------------------------------------------------------------
\* Winner determination on its own: claim's loop applied to any reveals map
\* of up to MaxRevealers parties, visited in any order.
\* ------------------------------------------------------------------------
RevealerNames == <<"carol", "bob", "dave", "erin", "frank">>

Revealers == {RevealerNames[i] : i \in 1..MaxRevealers}

\* Revealed amounts, the tests' 1000 and 1005 among them
RevealedAmounts == {0, 1, 12, 1000, 1005}

winner_loop ==
    /\ last = NoCall
    /\ \E S \in SUBSET Revealers :
       \E reveals \in [S -> RevealedAmounts] :
       \E order \in IterationOrders(reveals) :
        LET st == SecondPrice(reveals, order)
        IN  last' = [op |-> "winner_loop", reveals |-> reveals, order |-> order,
                     highest_bid |-> st.highest_bid,
                     second_highest_bid |-> st.second_highest_bid,
                     winning_account_id |-> st.winning_account_id]
    /\ UNCHANGED <<block_index, start_block_height, auction_period, reveal_period, auctions, revealed,
                   deposits, returned, claims_won>>

NextWinner == winner_loop \/ CallReturns

SpecWinner == Init /\ [][NextWinner]_vars

\* ------------------------------------------------------------- the claims
\* The identifier of the call that has just returned had a stored Auction
\* before the call.
HadAuction == last.account_id \in DOMAIN last.pre

PreAuction == last.pre[last.account_id]

\* current_time - start_tick of that Auction at the time of the call
Elapsed == last.at - PreAuction.start_block_height

SubmittedBid == [amount |-> 0, commitment |-> last.commitment]

C2_NoDoubleBid ==
    (/\ last.op = "bid" /\ HadAuction
     /\ last.caller \in DOMAIN PreAuction.bids
     /\ Elapsed < auction_period) =>
        /\ last.ret = "false"
        /\ last.account_id \in DOMAIN auctions
        /\ last.caller \in DOMAIN auctions[last.account_id].bids
        /\ auctions[last.account_id].bids[last.caller] = PreAuction.bids[last.caller]

\* C3: after a bid that returned true the stored Auction holds the caller's
\* Bid {amount 0, submitted commitment}.
C3_AcceptedBidStored ==
    (last.op = "bid" /\ last.ret = "true") =>
        /\ last.account_id \in DOMAIN auctions
        /\ last.caller \in DOMAIN auctions[last.account_id].bids
        /\ auctions[last.account_id].bids[last.caller] = SubmittedBid

\* C4: on an existing Auction with current_time - start_tick >= bid_period
\* every bid returns false and stores nothing, and no operation changes the
\* Auction's set of bidders.
C4_BiddingClosed ==
    (last.op # "none" /\ HadAuction /\ Elapsed >= auction_period) =>
        /\ last.op = "bid" => (last.ret = "false" /\ auctions = last.pre)
        /\ last.account_id \in DOMAIN auctions
        /\ DOMAIN auctions[last.account_id].bids = DOMAIN PreAuction.bids

\* C4 witness: a party without a Bid bids with a non-empty commitment exactly
\* bid_period after the Auction's start and is refused.
C4_Witness ==
    /\ last.op = "bid" /\ HadAuction
    /\ Elapsed = auction_period
    /\ last.caller \notin DOMAIN PreAuction.bids
    /\ Len(last.commitment) > 0
    /\ last.ret = "false"

\* C5: reveal returns true only for an Auction with
\* bid_period <= current_time - start_tick < bid_period + reveal_period;
\* outside that window it returns false and stores nothing.
C5_RevealWindow ==
    /\ (last.op = "reveal" /\ last.ret = "true") =>
           /\ HadAuction
           /\ auction_period <= Elapsed
           /\ Elapsed < auction_period + reveal_period
    /\ (/\ last.op = "reveal" /\ HadAuction
        /\ (Elapsed < auction_period \/ Elapsed >= auction_period + reveal_period)) =>
           /\ last.ret = "false"
           /\ auctions = last.pre
           /\ (<<last.account_id, last.caller>> \in revealed) = last.had_revealed

\* C5 witness: a reveal whose (amount, salt) matches the caller's stored
\* commitment and whose deposit matches is refused at the end of the window.
C5_Witness ==
    /\ last.op = "reveal" /\ HadAuction
    /\ Elapsed = auction_period + reveal_period
    /\ last.caller \in DOMAIN PreAuction.bids
    /\ PreAuction.bids[last.caller].commitment = RevealerCommitment(last.masked_amount, last.salt)
    /\ last.attached_deposit = last.masked_amount
    /\ last.ret = "false"

\* C6: for a caller with a stored Bid, in the Revealing phase, with the deposit
\* equal to masked_amount: reveal returns true iff commit(masked_amount, salt)
\* is the stored commitment, and otherwise returns false and stores nothing.
C6_CommitmentBinding ==
    (/\ last.op = "reveal" /\ HadAuction
     /\ last.caller \in DOMAIN PreAuction.bids
     /\ auction_period <= Elapsed /\ Elapsed < auction_period + reveal_period
     /\ last.attached_deposit = last.masked_amount) =>
        IF PreAuction.bids[last.caller].commitment = RevealerCommitment(last.masked_amount, last.salt)
        THEN last.ret = "true"
        ELSE last.ret = "false" /\ auctions = last.pre

\* C7: after a reveal of amount v that returned true the stored Auction has
\* bids[caller].amount = v and reveals[caller] = v.
C7_AcceptedRevealStored ==
    (last.op = "reveal" /\ last.ret = "true") =>
        /\ last.account_id \in DOMAIN auctions
        /\ last.caller \in DOMAIN auctions[last.account_id].bids
        /\ auctions[last.account_id].bids[last.caller].amount = last.masked_amount
        /\ last.caller \in DOMAIN auctions[last.account_id].reveals
        /\ auctions[last.account_id].reveals[last.caller] = last.masked_amount

\* C8: a reveal whose attached deposit differs from masked_amount returns
\* false and stores nothing, whatever the phase and the commitment; so a
\* reveal that returned true carried a deposit of exactly masked_amount.
C8_DepositCheckedFirst ==
    /\ (last.op = "reveal" /\ last.attached_deposit # last.masked_amount) =>
           /\ last.ret = "false"
           /\ auctions = last.pre
           /\ (<<last.account_id, last.caller>> \in revealed) = last.had_revealed
    /\ (last.op = "reveal" /\ last.ret = "true") =>
           last.attached_deposit = last.masked_amount

\* C8 witness: in the reveal window, a reveal matching the caller's commitment
\* but carrying another deposit is refused.
C8_Witness ==
    /\ last.op = "reveal" /\ HadAuction
    /\ auction_period <= Elapsed /\ Elapsed < auction_period + reveal_period
    /\ last.caller \in DOMAIN PreAuction.bids
    /\ PreAuction.bids[last.caller].commitment = RevealerCommitment(last.masked_amount, last.salt)
    /\ last.attached_deposit # last.masked_amount
    /\ last.ret = "false"

\* C9: once a reveal by a party on an identifier has returned true, every
\* later reveal by that party on that identifier returns false.
C9_NoSecondReveal ==
    (last.op = "reveal" /\ last.had_revealed) => last.ret = "false"

\* C10: withdraw returns false, transfers nothing and stores nothing when the
\* identifier has no Auction, the caller has no Bid in it, the Auction is in
\* its Bidding phase, or it is in the reveal window with a bidder that has
\* not revealed.
C10_WithdrawRefused ==
    (/\ last.op = "withdraw"
     /\ \/ ~HadAuction
        \/ last.caller \notin DOMAIN PreAuction.bids
        \/ Elapsed < auction_period
        \/ /\ Elapsed < auction_period + reveal_period
           /\ \E b \in DOMAIN PreAuction.bids : b \notin DOMAIN PreAuction.reveals) =>
        /\ last.ret = "false"
        /\ last.paid = 0
        /\ auctions = last.pre

\* C10 witness: a bidder's withdraw inside the reveal window, with a bidder
\* who has not revealed, is refused.
C10_Witness ==
    /\ last.op = "withdraw" /\ HadAuction
    /\ last.caller \in DOMAIN PreAuction.bids
    /\ Len(PreAuction.bids[last.caller].commitment) > 0
    /\ auction_period <= Elapsed /\ Elapsed < auction_period + reveal_period
    /\ \E b \in DOMAIN PreAuction.bids : b \notin DOMAIN PreAuction.reveals
    /\ last.ret = "false"

\* <<identifier, caller>> of the call that has just returned
Key == <<last.account_id, last.caller>>

\* Every party with a stored Bid in the Auction has had a reveal accepted.
AllBiddersRevealed == \A b \in DOMAIN PreAuction.bids : <<last.account_id, b>> \in revealed

RECURSIVE SetSum(_)
SetSum(S) ==
    IF S = {} THEN 0
    ELSE LET x == CHOOSE y \in S : TRUE IN x + SetSum(S \ {x})

\* C11: once every bidder of an Auction has revealed and bid_period has
\* elapsed, a bidder's withdraw returns true, also inside the reveal window.
C11_EarlySettlement ==
    (/\ last.op = "withdraw" /\ HadAuction
     /\ last.caller \in DOMAIN PreAuction.bids
     /\ Elapsed >= auction_period
     /\ AllBiddersRevealed) =>
        last.ret = "true"

\* C12: once bid_period + reveal_period has elapsed, withdraw by any party
\* with a Bid in the Auction returns true.
C12_StragglersCannotBlock ==
    (/\ last.op = "withdraw" /\ HadAuction
     /\ last.caller \in DOMAIN PreAuction.bids
     /\ Elapsed >= auction_period + reveal_period) =>
        last.ret = "true"

\* C13: a withdraw that returned true transferred bids[caller].amount, which
\* is the revealed amount for a caller who revealed and was not yet paid, and
\* leaves the stored bids[caller].amount at 0.
C13_WithdrawPaysAmount ==
    (last.op = "withdraw" /\ last.ret = "true") =>
        /\ last.paid = PreAuction.bids[last.caller].amount
        /\ auctions[last.account_id].bids[last.caller].amount = 0
        /\ (deposits[Key] # {} /\ returned[Key] = last.paid) => last.paid \in deposits[Key]

\* C14: withdraw calls after settlement transfer the deposited amount exactly
\* once: after a withdraw that returned true the caller has received the
\* deposit, and a caller already paid receives nothing more.
C14_IdempotentWithdraw ==
    (last.op = "withdraw" /\ last.ret = "true") =>
        /\ deposits[Key] # {} => returned[Key] \in deposits[Key]
        /\ returned[Key] > last.paid => last.paid = 0

RECURSIVE SumReturned(_, _)
SumReturned(a, ps) ==
    IF ps = {} THEN 0
    ELSE LET p == CHOOSE q \in ps : TRUE
         IN  returned[<<a, p>>] + SumReturned(a, ps \ {p})

RECURSIVE SumDeposited(_, _)
SumDeposited(a, ps) ==
    IF ps = {} THEN 0
    ELSE LET p == CHOOSE q \in ps : TRUE
         IN  SetSum(deposits[<<a, p>>]) + SumDeposited(a, ps \ {p})

\* C15: for every Auction, the total transferred out never exceeds the total
\* deposited by its accepted reveals (counted here once per distinct amount
\* and party, a lower bound of the deposits).
C15_Conservation ==
    \A a \in AccountIds : SumReturned(a, Parties) <= SumDeposited(a, Parties)

\* C15 witness: a withdraw returned true for a party whose accepted reveal
\* deposited a non-zero amount.
C15_Witness ==
    /\ last.op = "withdraw" /\ last.ret = "true"
    /\ \E v \in deposits[Key] : v > 0

\* C17: a bidder who revealed is paid, by a withdraw made once the Auction is
\* Settleable, whatever part of the deposit has not yet been returned.
C17_LoserRecoversDeposit ==
    (/\ last.op = "withdraw" /\ HadAuction
     /\ last.caller \in DOMAIN PreAuction.bids
     /\ deposits[Key] # {}
     /\ \/ Elapsed >= auction_period + reveal_period
        \/ (Elapsed >= auction_period /\ AllBiddersRevealed)) =>
        /\ last.ret = "true"
        /\ returned[Key] >= SetSum(deposits[Key])

\* ------------------------------------------------ settlement by claim
\* (the claim operation of src/contracts/rust/src/lib.rs, under SpecContracts)

\* Some party with a stored Bid has no stored reveal.
SomeBidderUnrevealed == \E b \in DOMAIN PreAuction.bids : b \notin DOMAIN PreAuction.reveals

\* Settleable: the bid period is over, and the reveal window is over or every
\* bidder has revealed.
Settleable ==
    /\ HadAuction
    /\ Elapsed >= auction_period
    /\ Elapsed >= auction_period + reveal_period \/ ~SomeBidderUnrevealed

\* C16: whenever claim has succeeded for winner W at settlement price p, the
\* total transferred back to W for that Auction plus p does not exceed what W
\* deposited: W cannot hold the identifier and the whole deposit.
C16_WinnerPaysSecondPrice ==
    \A w \in claims_won :
        returned[<<w.account_id, w.winner>>] + w.price
            <= SetSum(deposits[<<w.account_id, w.winner>>])

\* C18: claim returns false, creates no named entity and transfers nothing
\* when the identifier has no Auction, when elapsed < bid_period, or when
\* elapsed < bid_period + reveal_period and some bidder has not revealed.
C18_ClaimRefused ==
    (/\ last.op = "claim"
     /\ \/ ~HadAuction
        \/ HadAuction /\ Elapsed < auction_period
        \/ HadAuction /\ Elapsed < auction_period + reveal_period /\ SomeBidderUnrevealed)
    => /\ last.ret = "false"
       /\ ~last.created
       /\ last.paid = 0
       /\ (\E w \in claims_won : w.account_id = last.account_id) = last.had_claimed
       /\ auctions = last.pre

\* A claim made inside the reveal window, after one bidder revealed a
\* positive amount and while another has not revealed, was refused.
C18_Witness ==
    /\ last.op = "claim"
    /\ HadAuction
    /\ Elapsed > auction_period
    /\ Elapsed < auction_period + reveal_period
    /\ SomeBidderUnrevealed
    /\ \E b \in DOMAIN PreAuction.reveals : PreAuction.reveals[b] > 0
    /\ last.ret = "false"

\* C19: a claim whose caller is not the determined winner returns false and
\* creates no named entity; only the winner's claim returns true.
C19_ClaimAuthorization ==
    last.op = "claim" =>
        /\ last.ret = "true" => last.caller = last.winner
        /\ last.created => last.caller = last.winner

\* The revealer whose amount is strictly larger than every other revealed one.
StrictlyHighest(reveals, h) ==
    /\ h \in DOMAIN reveals
    /\ \A o \in DOMAIN reveals \ {h} : reveals[o] < reveals[h]

\* The largest amount revealed by anyone but h.
SecondLargest(reveals, h) ==
    CHOOSE v \in {reveals[o] : o \in DOMAIN reveals \ {h}} :
        \A o \in DOMAIN reveals \ {h} : reveals[o] <= v

\* C20: when at least two bidders revealed and one amount is strictly largest,
\* the highest revealer's claim returns true, creates the named entity for the
\* caller at the second-largest revealed amount and refunds every other
\* revealer in full; a claim by a lower revealer returns false.
C20_SecondPrice ==
    (/\ last.op = "claim"
     /\ Settleable
     /\ MapLen(PreAuction.reveals) >= 2
     /\ \E h \in DOMAIN PreAuction.reveals : StrictlyHighest(PreAuction.reveals, h))
    => LET reveals == PreAuction.reveals
           h == CHOOSE x \in DOMAIN reveals : StrictlyHighest(reveals, x)
       IN  IF last.caller = h
           THEN /\ last.ret = "true"
                /\ last.created
                /\ last.price = SecondLargest(reveals, h)
                /\ \A o \in DOMAIN reveals \ {h} :
                       returned[<<last.account_id, o>>] >= reveals[o]
           ELSE /\ last.ret = "false"
                /\ ~last.created

\* Winner determination ends with second_highest_bid = 0, whatever the order
\* in which the reveals are visited.
SecondHighestIsZero(reveals) ==
    \A order \in IterationOrders(reveals) : SecondPrice(reveals, order).second_highest_bid = 0

\* C21: whenever winner determination ends with second_highest == 0 (no
\* reveals, a single reveal, or every reveal but the largest equal to 0),
\* claim returns false for every caller and creates no named entity.
C21_NoSettlementAtZero ==
    (/\ last.op = "claim"
     /\ HadAuction
     /\ SecondHighestIsZero(PreAuction.reveals))
    => /\ last.ret = "false"
       /\ ~last.created

\* Some amount was revealed, and every revealed amount is 0.
AllRevealsZero(reveals) ==
    /\ DOMAIN reveals # {}
    /\ \A b \in DOMAIN reveals : reveals[b] = 0

\* C22: when every revealed amount of a Settleable Auction is 0, claim returns
\* false for any caller and creates no named entity, and every bidder's
\* withdraw still returns true, transferring the zero balance.
C22_NoValidWinner ==
    /\ (/\ last.op = "claim"
        /\ Settleable
        /\ AllRevealsZero(PreAuction.reveals))
       => /\ last.ret = "false"
          /\ ~last.created
          /\ auctions = last.pre
    /\ (/\ last.op = "withdraw"
        /\ Settleable
        /\ AllRevealsZero(PreAuction.reveals)
        /\ last.caller \in DOMAIN PreAuction.bids)
       => /\ last.ret = "true"
          /\ last.paid = 0

\* C23: on a claim that creates the named entity, every bidder other than the
\* winner has been transferred their full bid.amount and that amount is zeroed.
C23_ClaimRefundsLosers ==
    (last.op = "claim" /\ last.created)
    => \A b \in DOMAIN PreAuction.bids \ {last.winner} :
           /\ returned[<<last.account_id, b>>] >= PreAuction.bids[b].amount
           /\ auctions[last.account_id].bids[b].amount = 0

\* C24: once a claim has created the named entity for an identifier, no later
\* claim on that identifier returns true or creates the entity again.
C24_ClaimedOnce ==
    (last.op = "claim" /\ last.had_claimed)
    => /\ last.ret = "false"
       /\ ~last.created

\* ------------------------------------------------ frame and invariants

\* C25: every call of bid, reveal or withdraw that returns false leaves the
\* auctions map exactly as it was before the call, transfers nothing and
\* creates no named entity.
C25_FalseLeavesStateUntouched ==
    last.ret = "false"
    => /\ auctions = last.pre
       /\ last.paid = 0
       /\ ~last.created

\* A reveal by a stored bidder, inside the reveal window and with a matching
\* deposit, was rejected for its commitment.
C25_Witness ==
    /\ last.op = "reveal"
    /\ last.ret = "false"
    /\ HadAuction
    /\ PreAuction.start_block_height # 0
    /\ last.caller \in DOMAIN PreAuction.bids
    /\ InRevealWindow(PreAuction, last.at)
    /\ DepositMatches(last.masked_amount, last.attached_deposit)

\* C26: no operation aborts: every call of bid, reveal and withdraw ends by
\* returning a boolean, including a reveal against a stored commitment that is
\* not valid UTF-8.
C26_NoAbort == last.ret # "abort"

\* C27: an Auction's start_tick never changes once set, and no later call
\* replaces an existing Auction or discards its recorded bids.
C27_StartTickSetOnce ==
    \A a \in DOMAIN last.pre :
        /\ a \in DOMAIN auctions
        /\ auctions[a].start_block_height = last.pre[a].start_block_height
        /\ DOMAIN last.pre[a].bids \subseteq DOMAIN auctions[a].bids

\* C28: in every Auction, each party present in reveals is present in bids,
\* and reveals[party] equals bids[party].amount.
C28_RevealsMatchBids ==
    \A a \in DOMAIN auctions :
        \A p \in DOMAIN auctions[a].reveals :
            /\ p \in DOMAIN auctions[a].bids
            /\ auctions[a].reveals[p] = auctions[a].bids[p].amount

\* A withdraw or a claim has returned true on an Auction with a positive
\* revealed amount.
C28_Witness ==
    /\ last.op \in {"withdraw", "claim"}
    /\ last.ret = "true"
    /\ \E p \in DOMAIN auctions[last.account_id].reveals :
           auctions[last.account_id].reveals[p] > 0

\* C29: in every Auction reveals.len() <= bids.len(), with equality exactly
\* when every bidder has had a reveal accepted.
C29_LengthsDecideAllRevealed ==
    \A a \in DOMAIN auctions :
        /\ MapLen(auctions[a].reveals) <= MapLen(auctions[a].bids)
        /\ (MapLen(auctions[a].reveals) = MapLen(auctions[a].bids))
               <=> (\A b \in DOMAIN auctions[a].bids : <<a, b>> \in revealed)

C31_IdentifierIsolation ==
    last.op # "none"
    => \A y \in AccountIds \ {last.account_id} :
           /\ (y \in DOMAIN auctions) = (y \in DOMAIN last.pre)
           /\ y \in DOMAIN last.pre => auctions[y] = last.pre[y]
           /\ \A p \in Parties : returned[<<y, p>>] = last.pre_returned[<<y, p>>]

\* A reveal on one identifier was accepted while another identifier had an
\* Auction.
C31_Witness ==
    /\ last.op = "reveal"
    /\ last.ret = "true"
    /\ \E y \in DOMAIN last.pre : y # last.account_id

\* ------------------------------------------------ winner determination

\* The largest revealed amount.
LargestRevealed(reveals) ==
    CHOOSE v \in {reveals[o] : o \in DOMAIN reveals} : \A o \in DOMAIN reveals : reveals[o] <= v

\* The second-largest revealed amount, counting duplicates; 0 for one reveal.
SecondLargestRevealed(reveals) ==
    LET h == CHOOSE o \in DOMAIN reveals : reveals[o] = LargestRevealed(reveals)
    IN  IF DOMAIN reveals = {h} THEN 0 ELSE SecondLargest(reveals, h)

\* C32: for every reveals map and every order of visiting it, the loop ends
\* with highest the largest revealed amount, second_highest the second-largest
\* (counting duplicates) and winner a party whose reveal is the largest.
C32_OrderIndependent ==
    (last.op = "winner_loop" /\ DOMAIN last.reveals # {})
    => /\ last.highest_bid = LargestRevealed(last.reveals)
       /\ last.second_highest_bid = SecondLargestRevealed(last.reveals)
       /\ last.winning_account_id \in DOMAIN last.reveals
       /\ last.reveals[last.winning_account_id] = LargestRevealed(last.reveals)

\* Three reveals were visited with the largest amount in the middle and the
\* second-largest last.
C32_Witness ==
    /\ last.op = "winner_loop"
    /\ Len(last.order) = 3
    /\ last.reveals[last.order[1]] < last.reveals[last.order[3]]
    /\ last.reveals[last.order[3]] < last.reveals[last.order[2]]

\* All revealed amounts are equal, and there are at least two.
AllRevealsEqual(reveals) ==
    /\ MapLen(reveals) >= 2
    /\ \A o, q \in DOMAIN reveals : reveals[o] = reveals[q]

\* C33 as stated: if all revealed amounts are equal, winner ends as the entry
\* processed last.
C33_TieToLast ==
    (last.op = "winner_loop" /\ AllRevealsEqual(last.reveals))
    => last.winning_account_id = last.order[Len(last.order)]

\* C33 amended: if all revealed amounts are equal, winner ends as the entry
\* processed first.
C33_TieToFirst ==
    (last.op = "winner_loop" /\ AllRevealsEqual(last.reveals))
    => last.winning_account_id = last.order[1]

\* Three equal positive amounts were visited.
C33_Witness ==
    /\ last.op = "winner_loop"
    /\ AllRevealsEqual(last.reveals)
    /\ Len(last.order) = 3
    /\ last.highest_bid > 0

\* C34: when second_highest_bid is 0 and highest_bid is greater than 0, claim
\* by the highest revealer returns true and creates the named entity, the
\* settlement price is the highest bid, and nothing of the winner's deposit is
\* transferred back.
C34_PaysHighestWhenSecondIsZero ==
    (/\ last.op = "claim"
     /\ Settleable
     /\ SecondHighestIsZero(PreAuction.reveals)
     /\ StrictlyHighest(PreAuction.reveals, last.caller)
     /\ PreAuction.reveals[last.caller] > 0)
    => /\ last.ret = "true"
       /\ last.created
       /\ last.price = PreAuction.reveals[last.caller]
       /\ returned[Key] = 0

\* C35: a stored commitment binds one amount: when a reveal returns true,
\* every pair (a, s) whose commitment is the caller's stored one has a equal
\* to the revealed amount.
C35_CommitmentBindsOneAmount ==
    (/\ last.op = "reveal"
     /\ last.ret = "true"
     /\ HadAuction
     /\ last.caller \in DOMAIN PreAuction.bids)
    => \A a \in Amounts, s \in Salts :
           RevealerCommitment(a, s) = PreAuction.bids[last.caller].commitment
               => a = last.masked_amount

\* C36: in every Auction bids[P].amount is 0 for every bidder P with no entry
\* in reveals; such a bidder is transferred nothing by withdraw and is never
\* the winner a claim determines.
C36_UnrevealedAmountIsZero ==
    /\ \A a \in DOMAIN auctions :
           \A p \in DOMAIN auctions[a].bids \ DOMAIN auctions[a].reveals :
               auctions[a].bids[p].amount = 0
    /\ (/\ last.op = "withdraw"
        /\ HadAuction
        /\ last.caller \notin DOMAIN PreAuction.reveals)
       => last.paid = 0
    /\ (/\ last.op = "claim"
        /\ last.ret = "true")
       => last.winner \in DOMAIN PreAuction.reveals

\* A claim returned true on an Auction in which one bidder revealed a
\* positive amount and another never revealed.
C36_Witness ==
    /\ last.op = "claim"
    /\ last.ret = "true"
    /\ SomeBidderUnrevealed
    /\ \E p \in DOMAIN PreAuction.reveals : PreAuction.reveals[p] > 0

\* The phase test of withdraw and claim: elapsed >= bid_period + reveal_period,
\* or elapsed >= bid_period with bids.len() == reveals.len().
PhaseTest(auction, now) ==
    \/ now - auction.start_block_height >= auction_period + reveal_period
    \/ /\ now - auction.start_block_height >= auction_period
       /\ MapLen(auction.bids) = MapLen(auction.reveals)

\* C37: an Auction that satisfies the phase test satisfies it after every
\* further step: a later time, or a bid, reveal or withdraw call.
C37_SettleableIsStable ==
    [][\A a \in DOMAIN auctions :
           PhaseTest(auctions[a], block_index)
               => /\ a \in DOMAIN auctions'
                  /\ PhaseTest(auctions'[a], block_index')]_vars

\* A withdraw returned true on an Auction that satisfied the phase test, and
\* the Auction satisfies it afterwards.
C37_Witness ==
    /\ last.op = "withdraw"
    /\ last.ret = "true"
    /\ HadAuction
    /\ PhaseTest(PreAuction, last.at)
    /\ last.account_id \in DOMAIN auctions
    /\ PhaseTest(auctions[last.account_id], block_index)

\* C38: a party with a stored Bid is recognized as a bidder whatever its
\* commitment bytes: its repeated bid returns false, and its withdraw after
\* the reveal window returns true.
C38_BidderRecognized ==
    /\ (/\ last.op = "bid"
        /\ HadAuction
        /\ last.caller \in DOMAIN PreAuction.bids)
       => last.ret = "false"
    /\ (/\ last.op = "withdraw"
        /\ HadAuction
        /\ last.caller \in DOMAIN PreAuction.bids
        /\ Elapsed >= auction_period + reveal_period)
       => last.ret = "true"

\* C39: an Auction is treated as existing by every later call whatever the
\* tick of its first bid: a bid does not start it afresh, a matching reveal in
\* the reveal window returns true, and a bidder's withdraw after the reveal
\* window returns true.
C39_ExistsWhateverTheTick ==
    (/\ last.op # "none"
     /\ HadAuction
     /\ last.caller \in DOMAIN PreAuction.bids
     /\ Len(PreAuction.bids[last.caller].commitment) # 0)
    => /\ last.op = "bid"
          => /\ last.ret = "false"
             /\ auctions[last.account_id] = PreAuction
       /\ (/\ last.op = "reveal"
           /\ auction_period <= Elapsed
           /\ Elapsed < auction_period + reveal_period
           /\ DepositMatches(last.masked_amount, last.attached_deposit)
           /\ PreAuction.bids[last.caller].commitment
                  = RevealerCommitment(last.masked_amount, last.salt))
          => last.ret = "true"
       /\ (/\ last.op = "withdraw"
           /\ Elapsed >= auction_period + reveal_period)
          => last.ret = "true"

\* C40: a reveal that returns false leaves none of its attached value with
\* the contract.
C40_RejectedRevealKeepsNothing ==
    (last.op = "reveal" /\ last.ret = "false")
    => Retained(last) = 0

====
